---- MODULE Spec2Model ----
(***************************************************************************)
(* Coderic Relay: the destination router of src/src/Relay.js and the       *)
(* WebRTC signaling plugin of src/src/plugins/webrtc.js, both attached to  *)
(* the same Socket.io namespace of one instance.                           *)
(*                                                                         *)
(* Identifiers (socket ids, room names, peer ids) are pairs <<kind, n>> so *)
(* that a client may pass a socket id where a room name or a peer id is    *)
(* expected, as the untyped strings of the program allow.                  *)
(***************************************************************************)
EXTENDS Integers, FiniteSets, Sequences, TLC

NumSockets == 3
NumRooms == 1
NumPeerIds == 1
MaxPending == 2
MaxJoins == 3

Sock(i) == <<"s", i>>
Sockets == {Sock(i) : i \in 1..NumSockets}
RoomIds == {<<"r", i>> : i \in 1..NumRooms}
PeerIds == {<<"p", i>> : i \in 1..NumPeerIds}
None == <<"none", 0>>
Sdp == <<"sdp", 1>>

(* Every name a Socket.io room can have: each socket sits in the room      *)
(* named by its own id.                                                    *)
Names == RoomIds \cup Sockets

VARIABLES
  status,            \* socket id -> "fresh" | "connected" | "closed"
  sioRooms,          \* adapter of the namespace: room name -> set of socket ids
  rooms,             \* WebRTCPlugin.rooms: roomId -> Set of socket ids
  peers,             \* WebRTCPlugin.peers: socket id -> {roomId, peerId}
  peerIdToSocketId,  \* WebRTCPlugin.peerIdToSocketId: peerId -> socket id
  mongoEnabled,      \* getPlugin('mongo')?.isEnabled()
  pending,           \* 'relay' handlers suspended at await saveMessage
  joinCount,         \* number of webrtc:join requests received so far
  lastEvent,         \* the handler run last and everything it emitted
  usuario,           \* socket id -> socket.data.usuario
  iceServers,        \* WebRTCPlugin.iceServers
  instance,          \* the Relay instance: started, plugins.webrtc option, plugin registry, attached handlers
  client,            \* socket id -> state of the WebRTCManager built on that socket
  outbox,            \* socket id -> events the client emitted that the server has not taken yet
  log,               \* Relay.logBuffer, the number of records emitted, and the monitor client
  manager,           \* one WebRTCManager: ICE state, peers map, connections created, suspended calls
  kafka              \* standalone server: records of the 'pasarela-events' topic

vars == <<status, sioRooms, rooms, peers, peerIdToSocketId, mongoEnabled, pending, joinCount, lastEvent,
          usuario, iceServers, instance, client, outbox, log, manager, kafka>>

(***************************************************************************)
(* Maps (JavaScript Map): functions whose domain is the set of keys.       *)
(***************************************************************************)
EmptyMap == [k \in {} |-> None]
MapSet(m, key, val) == [k \in (DOMAIN m) \cup {key} |-> IF k = key THEN val ELSE m[k]]
MapDelete(m, key) == [k \in (DOMAIN m) \ {key} |-> m[k]]
MapHas(m, key) == key \in DOMAIN m

(***************************************************************************)
(* Socket.io emit targets.                                                 *)
(***************************************************************************)
Connected == {s \in Sockets : status[s] = "connected"}

\* namespace.emit(ev, data): every socket of the namespace
NamespaceEmit == Connected

\* socket.broadcast.emit(ev, data): every socket of the namespace but the sender
BroadcastEmit(s) == Connected \ {s}

\* socket.emit(ev, data): the socket itself; the packet of a closed socket is discarded
SocketEmit(s) == IF status[s] = "connected" THEN {s} ELSE {}

\* socket.to(room).emit(ev, data): the members of the room but the sender
SocketToEmit(rms, s, room) == IF room \in DOMAIN rms THEN (rms[room] \cap Connected) \ {s} ELSE {}

\* namespace.to(id).emit(ev, data): the members of the room named id
NamespaceToEmit(rms, id) == IF id \in DOMAIN rms THEN rms[id] \cap Connected ELSE {}

Emit(src, ev, msg, to) == [src |-> src, ev |-> ev, msg |-> msg, to |-> to]

(***************************************************************************)
(* Envelopes.  An absent field is "undefined" (strings) or None (ids).     *)
(***************************************************************************)
Envelope(destino, room, tipo, roomId, peerId, to, body) ==
  [destino |-> destino, room |-> room, tipo |-> tipo, roomId |-> roomId,
   peerId |-> peerId, to |-> to, body |-> body]

NoData == Envelope("undefined", None, "undefined", None, None, None, None)

Destinos == {"yo", "ustedes", "nosotros", "room", "grupo", "undefined"}
KnownDestinos == {"yo", "ustedes", "nosotros", "room"}

\* A client can pass any string as a room name or a peer id: a configured
\* name, or the id of a socket it has seen (the id of the first connection
\* stands for these).
AliasIds == {s \in {Sock(1)} : status[s] # "fresh"}
RoomInputs == RoomIds \cup AliasIds
PeerInputs == PeerIds \cup AliasIds

\* application envelopes: a type tag and a destination; a room name goes
\* with destination 'room' (and may be missing)
PlainEnvelopes ==
  {Envelope(d, None, "ping", None, None, None, None) : d \in Destinos}
  \cup {Envelope("room", r, "ping", None, None, None, None) : r \in RoomIds}

\* signaling envelopes, sent with destino 'room' as the browser client sends them
JoinEnvelopes ==
  {Envelope("room", r, "webrtc:join", r, p, None, None) :
     r \in RoomInputs \cup {None}, p \in PeerInputs \cup {None}}
LeaveEnvelopes == {Envelope("room", None, "webrtc:leave", None, None, None, None)}
\* offer, answer and ice-candidate addressed to a peer id or to a socket id
\* (the default peer id), and the malformed ones: no 'to', no body
OfferEnvelopes ==
  {Envelope("room", None, t, None, None, p, Sdp) :
     t \in {"webrtc:offer", "webrtc:answer", "webrtc:ice-candidate"},
     p \in PeerIds \cup Sockets}
  \cup {Envelope("room", None, "webrtc:offer", None, None, p, b) :
     p \in {None, Sock(1)}, b \in {None, Sdp}}
RoomEnvelopes == {Envelope("room", r, "ping", None, None, None, None) : r \in RoomInputs}
SignalEnvelopes == JoinEnvelopes \cup LeaveEnvelopes \cup OfferEnvelopes

(***************************************************************************)
(* Relay: the switch of the 'notificar' and 'relay' handlers.              *)
(***************************************************************************)
\* RouteTargets with 'nosotros' served by socket.broadcast
RouteTargets_AllSkipsSender(s, data) ==
  CASE data.destino = "ustedes" -> BroadcastEmit(s)
    [] data.destino = "nosotros" -> BroadcastEmit(s)
    [] OTHER -> SocketEmit(s)

\* RouteTargets with 'ustedes' served by namespace.emit
RouteTargets_OthersIncludeSender(s, data) ==
  CASE data.destino = "ustedes" -> NamespaceEmit
    [] data.destino = "nosotros" -> NamespaceEmit
    [] OTHER -> SocketEmit(s)

\* RouteTargets whose default branch emits to the namespace
RouteTargets_DefaultToAll(s, data) ==
  CASE data.destino = "ustedes" -> BroadcastEmit(s)
    [] data.destino = "nosotros" -> NamespaceEmit
    [] OTHER -> NamespaceEmit

\* RouteTargets with a case for 'yo' and no default branch
RouteTargets_UnknownDropped(s, data) ==
  CASE data.destino = "ustedes" -> BroadcastEmit(s)
    [] data.destino = "nosotros" -> NamespaceEmit
    [] data.destino \in {"yo", "undefined"} -> SocketEmit(s)
    [] OTHER -> {}

RouteTargets(s, data) ==
  CASE data.destino = "ustedes" -> BroadcastEmit(s)
    [] data.destino = "nosotros" -> NamespaceEmit
    [] OTHER -> SocketEmit(s)

\* variant: the router stamps the sender's id into the envelope
RelayRoute_StampsSender(ev, s, data) ==
  <<Emit("Relay", ev, [data EXCEPT !.to = s], RouteTargets(s, data))>>

RelayRoute(ev, s, data) == <<Emit("Relay", ev, data, RouteTargets(s, data))>>

(***************************************************************************)
(* WebRTCPlugin.  A handler maps the plugin's tables st = [rooms, peers,   *)
(* p2s, sio] to the tables after it, with the emits and warnings it made.  *)
(***************************************************************************)
Tables == [rooms |-> rooms, peers |-> peers, p2s |-> peerIdToSocketId, sio |-> sioRooms]

Result(st, out, warn) ==
  [rooms |-> st.rooms, peers |-> st.peers, p2s |-> st.p2s, sio |-> st.sio,
   out |-> out, warn |-> warn]

SioJoin(sio, s, room) == [sio EXCEPT ![room] = @ \cup {s}]
SioLeave(sio, s, room) == [sio EXCEPT ![room] = @ \ {s}]
SioLeaveAll(sio, s) == [r \in DOMAIN sio |-> sio[r] \ {s}]

\* handleJoinRoom that keys the inverse map by the socket id instead of the peer id
handleJoinRoom_InverseBySocketId(st, s, data) ==
  IF data.roomId = None THEN Result(st, <<>>, 0)
  ELSE
    LET roomId == data.roomId
        actualPeerId == IF data.peerId = None THEN s ELSE data.peerId
        room == IF MapHas(st.rooms, roomId) THEN st.rooms[roomId] ELSE {}
        existingPeers == [m \in room |-> IF MapHas(st.peers, m) THEN st.peers[m].peerId ELSE m]
        sio2 == SioJoin(st.sio, s, roomId)
    IN  [rooms |-> MapSet(st.rooms, roomId, room \cup {s}),
         peers |-> MapSet(st.peers, s, [roomId |-> roomId, peerId |-> actualPeerId]),
         p2s |-> MapSet(st.p2s, s, s),
         sio |-> sio2,
         out |-> <<Emit("WebRTCPlugin", "relay",
                        [tipo |-> "webrtc:joined", roomId |-> roomId, peers |-> existingPeers],
                        SocketEmit(s)),
                   Emit("WebRTCPlugin", "relay",
                        [tipo |-> "webrtc:peer-joined", peerId |-> actualPeerId, socketId |-> s],
                        SocketToEmit(sio2, s, roomId))>>,
         warn |-> 0]

\* variant: a join of a connection that has a session deletes the inverse
\* entry of the session's peer id after writing the new one
handleJoinRoom_DropsPreviousInverse(st, s, data) ==
  IF data.roomId = None THEN Result(st, <<>>, 0)
  ELSE
    LET roomId == data.roomId
        actualPeerId == IF data.peerId = None THEN s ELSE data.peerId
        room == IF MapHas(st.rooms, roomId) THEN st.rooms[roomId] ELSE {}
        existingPeers == [m \in room |-> IF MapHas(st.peers, m) THEN st.peers[m].peerId ELSE m]
        sio2 == SioJoin(st.sio, s, roomId)
        p2s2 == MapSet(st.p2s, actualPeerId, s)
    IN  [rooms |-> MapSet(st.rooms, roomId, room \cup {s}),
         peers |-> MapSet(st.peers, s, [roomId |-> roomId, peerId |-> actualPeerId]),
         p2s |-> IF MapHas(st.peers, s) THEN MapDelete(p2s2, st.peers[s].peerId) ELSE p2s2,
         sio |-> sio2,
         out |-> <<Emit("WebRTCPlugin", "relay",
                        [tipo |-> "webrtc:joined", roomId |-> roomId, peers |-> existingPeers],
                        SocketEmit(s)),
                   Emit("WebRTCPlugin", "relay",
                        [tipo |-> "webrtc:peer-joined", peerId |-> actualPeerId, socketId |-> s],
                        SocketToEmit(sio2, s, roomId))>>,
         warn |-> 0]

handleJoinRoom(st, s, data) ==
  IF data.roomId = None THEN Result(st, <<>>, 0)
  ELSE
    LET roomId == data.roomId
        actualPeerId == IF data.peerId = None THEN s ELSE data.peerId
        room == IF MapHas(st.rooms, roomId) THEN st.rooms[roomId] ELSE {}
        existingPeers == [m \in room |-> IF MapHas(st.peers, m) THEN st.peers[m].peerId ELSE m]
        sio2 == SioJoin(st.sio, s, roomId)
    IN  [rooms |-> MapSet(st.rooms, roomId, room \cup {s}),
         peers |-> MapSet(st.peers, s, [roomId |-> roomId, peerId |-> actualPeerId]),
         p2s |-> MapSet(st.p2s, actualPeerId, s),
         sio |-> sio2,
         out |-> <<Emit("WebRTCPlugin", "relay",
                        [tipo |-> "webrtc:joined", roomId |-> roomId, peers |-> existingPeers],
                        SocketEmit(s)),
                   Emit("WebRTCPlugin", "relay",
                        [tipo |-> "webrtc:peer-joined", peerId |-> actualPeerId, socketId |-> s],
                        SocketToEmit(sio2, s, roomId))>>,
         warn |-> 0]

\* variant: an unmapped 'to' is used as a socket id, without a warning
handleSignal_FallbackToSocketId(st, s, data) ==
  IF data.to = None \/ data.body = None THEN Result(st, <<>>, 0)
  ELSE LET target == IF MapHas(st.p2s, data.to) THEN st.p2s[data.to] ELSE data.to
       IN  Result(st, <<Emit("WebRTCPlugin", "relay",
                             [tipo |-> data.tipo, from |-> s, to |-> data.to, body |-> data.body],
                             NamespaceToEmit(st.sio, target))>>, 0)

\* handleOffer, handleAnswer and handleIceCandidate differ by the tag only
handleSignal(st, s, data) ==
  IF data.to = None \/ data.body = None THEN Result(st, <<>>, 0)
  ELSE IF ~MapHas(st.p2s, data.to) THEN Result(st, <<>>, 1)
  ELSE Result(st,
              <<Emit("WebRTCPlugin", "relay",
                     [tipo |-> data.tipo, from |-> s, to |-> data.to, body |-> data.body],
                     NamespaceToEmit(st.sio, st.p2s[data.to]))>>,
              0)

\* handleLeaveRoom that notifies with namespace.to(roomId), the leaver included
handleLeaveRoom_NotifiesWholeRoom(st, s) ==
  IF ~MapHas(st.peers, s) THEN Result(st, <<>>, 0)
  ELSE
    LET roomId == st.peers[s].roomId
        peerId == st.peers[s].peerId
        rooms2 == IF MapHas(st.rooms, roomId)
                  THEN IF st.rooms[roomId] \ {s} = {}
                       THEN MapDelete(st.rooms, roomId)
                       ELSE MapSet(st.rooms, roomId, st.rooms[roomId] \ {s})
                  ELSE st.rooms
    IN  [rooms |-> rooms2,
         peers |-> MapDelete(st.peers, s),
         p2s |-> MapDelete(st.p2s, peerId),
         sio |-> SioLeave(st.sio, s, roomId),
         out |-> <<Emit("WebRTCPlugin", "relay",
                        [tipo |-> "webrtc:peer-left", peerId |-> peerId, socketId |-> s],
                        NamespaceToEmit(st.sio, roomId))>>,
         warn |-> 0]

\* handleLeaveRoom that keeps the room of its last member as an empty set
handleLeaveRoom_KeepsEmptyRoom(st, s) ==
  IF ~MapHas(st.peers, s) THEN Result(st, <<>>, 0)
  ELSE
    LET roomId == st.peers[s].roomId
        peerId == st.peers[s].peerId
        rooms2 == IF MapHas(st.rooms, roomId)
                  THEN MapSet(st.rooms, roomId, st.rooms[roomId] \ {s})
                  ELSE st.rooms
    IN  [rooms |-> rooms2,
         peers |-> MapDelete(st.peers, s),
         p2s |-> MapDelete(st.p2s, peerId),
         sio |-> SioLeave(st.sio, s, roomId),
         out |-> <<Emit("WebRTCPlugin", "relay",
                        [tipo |-> "webrtc:peer-left", peerId |-> peerId, socketId |-> s],
                        SocketToEmit(st.sio, s, roomId))>>,
         warn |-> 0]

\* handleLeaveRoom that, for a connection without a session, still removes
\* the socket id from every room and from the inverse map
handleLeaveRoom_UnknownCleansBySocketId(st, s) ==
  IF ~MapHas(st.peers, s)
  THEN [rooms |-> [r \in {x \in DOMAIN st.rooms : st.rooms[x] \ {s} # {}} |-> st.rooms[r] \ {s}],
        peers |-> st.peers,
        p2s |-> MapDelete(st.p2s, s),
        sio |-> st.sio,
        out |-> <<>>,
        warn |-> 0]
  ELSE
    LET roomId == st.peers[s].roomId
        peerId == st.peers[s].peerId
        rooms2 == IF MapHas(st.rooms, roomId)
                  THEN IF st.rooms[roomId] \ {s} = {}
                       THEN MapDelete(st.rooms, roomId)
                       ELSE MapSet(st.rooms, roomId, st.rooms[roomId] \ {s})
                  ELSE st.rooms
    IN  [rooms |-> rooms2,
         peers |-> MapDelete(st.peers, s),
         p2s |-> MapDelete(st.p2s, peerId),
         sio |-> SioLeave(st.sio, s, roomId),
         out |-> <<Emit("WebRTCPlugin", "relay",
                        [tipo |-> "webrtc:peer-left", peerId |-> peerId, socketId |-> s],
                        SocketToEmit(st.sio, s, roomId))>>,
         warn |-> 0]

handleLeaveRoom(st, s) ==
  IF ~MapHas(st.peers, s) THEN Result(st, <<>>, 0)
  ELSE
    LET roomId == st.peers[s].roomId
        peerId == st.peers[s].peerId
        rooms2 == IF MapHas(st.rooms, roomId)
                  THEN IF st.rooms[roomId] \ {s} = {}
                       THEN MapDelete(st.rooms, roomId)
                       ELSE MapSet(st.rooms, roomId, st.rooms[roomId] \ {s})
                  ELSE st.rooms
    IN  [rooms |-> rooms2,
         peers |-> MapDelete(st.peers, s),
         p2s |-> MapDelete(st.p2s, peerId),
         sio |-> SioLeave(st.sio, s, roomId),
         out |-> <<Emit("WebRTCPlugin", "relay",
                        [tipo |-> "webrtc:peer-left", peerId |-> peerId, socketId |-> s],
                        SocketToEmit(st.sio, s, roomId))>>,
         warn |-> 0]

\* the plugin's listener of 'relay'
PluginOnRelay(st, s, data) ==
  CASE data.tipo = "webrtc:join" -> handleJoinRoom(st, s, data)
    [] data.tipo \in {"webrtc:offer", "webrtc:answer", "webrtc:ice-candidate"} -> handleSignal(st, s, data)
    [] data.tipo = "webrtc:leave" -> handleLeaveRoom(st, s)
    [] OTHER -> Result(st, <<>>, 0)

(***************************************************************************)
(* ICE configuration of the signaling plugin.                              *)
(***************************************************************************)
\* options of the WebRTCPlugin constructor; has* tells whether the option is
\* given, "" is an absent string
IceOption(hasIceServers, ice, hasStun, stun, hasTurn, turn) ==
  [hasIceServers |-> hasIceServers, iceServers |-> ice,
   hasStun |-> hasStun, stun |-> stun, hasTurn |-> hasTurn, turn |-> turn]

StunEntry(isString, urls) == [isString |-> isString, urls |-> urls]
TurnOption(url, urls, username, credential) ==
  [url |-> url, urls |-> urls, username |-> username, credential |-> credential]

NoTurn == TurnOption("", "", "", "")
NoOptions == IceOption(FALSE, <<>>, FALSE, <<>>, FALSE, NoTurn)

IceOptions ==
  { NoOptions,
    IceOption(TRUE, <<[urls |-> "turn:custom"]>>, TRUE, <<StunEntry(TRUE, "stun:a")>>, FALSE, NoTurn),
    IceOption(TRUE, <<>>, FALSE, <<>>, TRUE, TurnOption("turn:t", "", "u", "c")),
    IceOption(FALSE, <<>>, TRUE, <<StunEntry(TRUE, "stun:a"), StunEntry(FALSE, ""), StunEntry(FALSE, "stun:b")>>,
              TRUE, TurnOption("", "turn:t", "u", "")),
    IceOption(FALSE, <<>>, FALSE, <<>>, TRUE, TurnOption("turn:t", "", "u", "c")),
    IceOption(FALSE, <<>>, FALSE, <<>>, TRUE, TurnOption("", "", "u", "c")) }

DefaultStunServers ==
  <<StunEntry(FALSE, "stun:stun.l.google.com:19302"), StunEntry(FALSE, "stun:stun1.l.google.com:19302")>>

TurnConfig(urls, username, credential) ==
  IF username # "" /\ credential # "" THEN [urls |-> urls, username |-> username, credential |-> credential]
  ELSE IF username # "" THEN [urls |-> urls, username |-> username]
  ELSE IF credential # "" THEN [urls |-> urls, credential |-> credential]
  ELSE [urls |-> urls]

buildIceServers(options) ==
  IF options.hasIceServers THEN options.iceServers
  ELSE
    LET defaultStunServers == IF options.hasStun THEN options.stun ELSE DefaultStunServers
        kept == SelectSeq(defaultStunServers, LAMBDA e : e.isString \/ e.urls # "")
        stun == [i \in 1..Len(kept) |-> [urls |-> kept[i].urls]]
        urls == IF options.turn.url # "" THEN options.turn.url ELSE options.turn.urls
        turn == IF options.hasTurn /\ urls # ""
                THEN <<TurnConfig(urls, options.turn.username, options.turn.credential)>>
                ELSE <<>>
    IN  stun \o turn

getIceServers == iceServers

\* variant: a connection without a peer session gets an empty configuration
IceAnswer_OnlyWithSession(st, s) ==
  [iceServers |-> IF MapHas(st.peers, s) THEN getIceServers ELSE <<>>]

\* the argument of the acknowledgement of 'webrtc:get-ice-servers'
IceAnswer(st, s) == [iceServers |-> getIceServers]

(***************************************************************************)
(* The log buffer of the monitor namespace.                                *)
(***************************************************************************)
maxLogBuffer == 1000
HistoryLen == 100
MaxLogs == 1002

\* a log record; its timestamp is the number of the emission
LogEntry(n) == [timestamp |-> n]

\* buffer: Relay.logBuffer; emitted: records emitted so far; monitor: the
\* socket of the monitor namespace; history: the 'logs:history' it was sent
\* by the handler that just ran
NoLog == [buffer |-> <<>>, emitted |-> 0, monitor |-> "fresh", history |-> <<>>]

\* Array.prototype.slice(-k)
SliceLast(buf, k) == SubSeq(buf, IF Len(buf) > k THEN Len(buf) - k + 1 ELSE 1, Len(buf))

\* variant: at capacity the new record is dropped instead of the oldest
emitLog_DropsNewest(l) ==
  LET pushed == Append(l.buffer, LogEntry(l.emitted + 1))
  IN  [l EXCEPT !.buffer = IF Len(pushed) > maxLogBuffer THEN l.buffer ELSE pushed,
                !.emitted = @ + 1,
                !.history = <<>>]

emitLog(l) ==
  LET pushed == Append(l.buffer, LogEntry(l.emitted + 1))
  IN  [l EXCEPT !.buffer = IF Len(pushed) > maxLogBuffer THEN Tail(pushed) ELSE pushed,
                !.emitted = @ + 1,
                !.history = <<>>]

(***************************************************************************)
(* The Relay instance and the signaling client.                            *)
(***************************************************************************)
WebRTCOptions == {"undefined", "false", "options"}

\* pluginNamespace: WebRTCPlugin.namespace is not null;
\* redisUrl, mongoUrl: options.redis.url and options.plugins.mongo.url are
\* set; pubClient, subClient: the fields are not null; adapter: the adapter
\* of the socket server; mongoPlugin: the 'mongo' entry of the plugin
\* registry; redis, mongo: how the connection attempt of start() ended
Instance(started, webrtc, webrtcPlugin, handlers) ==
  [started |-> started, webrtc |-> webrtc, webrtcPlugin |-> webrtcPlugin, handlers |-> handlers,
   uncaught |-> FALSE, pluginNamespace |-> handlers,
   redisUrl |-> FALSE, mongoUrl |-> FALSE,
   pubClient |-> FALSE, subClient |-> FALSE, adapter |-> "memory",
   mongoPlugin |-> "null",
   redis |-> "none", mongo |-> "none"]

\* a started instance whose application registered the WebRTC plugin and
\* called its setupHandlers on the namespace
Attached == Instance(TRUE, "undefined", "registered", TRUE)

\* new Relay(options): nothing is registered in the plugin registry
Constructed(webrtc) == Instance(FALSE, webrtc, "null", FALSE)

\* new Relay(options) with or without a Redis url and a MongoDB url
Configured(webrtc, redisUrl, mongoUrl) ==
  [Constructed(webrtc) EXCEPT !.redisUrl = redisUrl, !.mongoUrl = mongoUrl]

\* how a connection attempt can end: the client emits 'connect' or 'error'
\* (Redis), connect() resolves or rejects (MongoDB)
Outcomes == {"connected", "failed"}

\* Relay._setupRedis: the clients are assigned before the wait for
\* 'connect'; the catch logs and leaves them assigned
setupRedis(inst, outcome) ==
  IF ~inst.redisUrl THEN inst
  ELSE [inst EXCEPT !.pubClient = TRUE, !.subClient = TRUE, !.redis = outcome]

\* variant: the plugin is registered before it is initialized
setupPlugins_RegistersFirst(inst, outcome) ==
  IF ~inst.mongoUrl THEN inst
  ELSE [inst EXCEPT !.mongoPlugin = "registered", !.mongo = outcome]

\* Relay._setupPlugins: registerPlugin runs after initialize() resolved
setupPlugins(inst, outcome) ==
  IF ~inst.mongoUrl THEN inst
  ELSE IF outcome = "connected"
       THEN [inst EXCEPT !.mongoPlugin = "registered", !.mongo = outcome]
       ELSE [inst EXCEPT !.mongo = outcome]

\* RelayPlugin.isEnabled of the registered plugin: enabled is set by
\* RelayPlugin.initialize, which MongoPlugin.initialize reaches after
\* connect() resolved
isEnabled(inst) == inst.mongoPlugin = "registered" /\ inst.mongo = "connected"

\* Relay._setupSocketIO: the Redis adapter is installed when both client
\* fields are set
setupSocketIO(inst) ==
  IF inst.pubClient /\ inst.subClient THEN [inst EXCEPT !.adapter = "redis"] ELSE inst

\* Relay.getStats
getStats(inst) == [redis |-> inst.pubClient, mongo |-> isEnabled(inst)]

NumUsuarios == 2
Usuarios == {<<"u", i>> : i \in 1..NumUsuarios}

\* WebRTCManager: phase of joinRoom, and its roomId and peerId arguments
Client(phase, roomId, peerId) == [phase |-> phase, roomId |-> roomId, peerId |-> peerId]
NoClient == Client("idle", None, None)

\* One WebRTCManager seen from inside: iceServersReady, its peers map
\* (remote id -> RTCPeerConnection), every RTCPeerConnection created so far
\* with the remote id it was created for, whether it was closed and whether
\* an offer was applied to it, and the calls of createPeerConnection
\* suspended at await initializeIceServers() with the handler that made them
MaxCreated == 3
RemoteIds == {Sock(2), Sock(3)}

PeerConnection(remote, caller) ==
  [remote |-> remote, closed |-> FALSE, remoteDescription |-> (caller = "webrtc:offer")]

NoManager == [iceServersReady |-> FALSE, peers |-> EmptyMap, created |-> <<>>, waiting |-> <<>>]

\* the synchronous part of createPeerConnection after its await: new
\* RTCPeerConnection, then this.peers.set(peerId, pc); handleOffer goes on
\* with setRemoteDescription on the connection it was returned
NewPeerConnection(m, remote, caller) ==
  [m EXCEPT !.created = Append(@, PeerConnection(remote, caller)),
            !.peers = MapSet(@, remote, Len(m.created) + 1)]

\* WebRTCManager.createPeerConnection up to its first suspension
createPeerConnection(m, remote, caller) ==
  IF m.iceServersReady
  THEN NewPeerConnection(m, remote, caller)
  ELSE [m EXCEPT !.waiting = Append(@, [remote |-> remote, caller |-> caller])]

\* a suspended createPeerConnection resumes: its own initializeIceServers()
\* has set iceServersReady
resumePeerConnection(m, i) ==
  NewPeerConnection([m EXCEPT !.iceServersReady = TRUE,
                              !.waiting = SubSeq(@, 1, i - 1) \o SubSeq(@, i + 1, Len(@))],
                    m.waiting[i].remote, m.waiting[i].caller)

\* WebRTCManager.closePeerConnection
closePeerConnection(m, remote) ==
  IF MapHas(m.peers, remote)
  THEN [m EXCEPT !.created[m.peers[remote]].closed = TRUE, !.peers = MapDelete(@, remote)]
  ELSE m

\* The standalone server (Pasarela v2.0): the 'pasarela-events' topic as
\* the records produced to it; a record stays until its producer's handler
\* has resumed and the consumer has taken it
MaxTopic == 2

KafkaMessage(s, data) ==
  [socket |-> s, value |-> [type |-> "message", from |-> s, data |-> data],
   routed |-> FALSE, consumed |-> FALSE]

\* the switch of the 'pasarela' handler
PasarelaTargets(s, data) ==
  CASE data.destino = "ustedes" -> BroadcastEmit(s)
    [] data.destino = "nosotros" -> NamespaceEmit
    [] OTHER -> SocketEmit(s)

\* the records about which something is still to happen
Settle(topic) == SelectSeq(topic, LAMBDA m : ~(m.routed /\ m.consumed))

(***************************************************************************)
(* State machine.                                                          *)
(***************************************************************************)
Event(kind, s, data, out, warn, ack) ==
  [kind |-> kind, socket |-> s, data |-> data, out |-> out, warn |-> warn, ack |-> ack]

IdleEvent == Event("idle", None, NoData, <<>>, 0, "none")
Idle == lastEvent = IdleEvent

Init ==
  /\ status = [s \in Sockets |-> "fresh"]
  /\ sioRooms = [r \in Names |-> {}]
  /\ rooms = EmptyMap
  /\ peers = EmptyMap
  /\ peerIdToSocketId = EmptyMap
  /\ mongoEnabled \in BOOLEAN
  /\ pending = <<>>
  /\ joinCount = 0
  /\ lastEvent = IdleEvent
  /\ usuario = [s \in Sockets |-> None]
  /\ iceServers \in {buildIceServers(o) : o \in IceOptions}
  /\ instance = Attached
  /\ client = [s \in Sockets |-> NoClient]
  /\ outbox = [s \in Sockets |-> <<>>]
  /\ log = NoLog
  /\ manager = NoManager
  /\ kafka = <<>>

SetTables(r) ==
  /\ rooms' = r.rooms
  /\ peers' = r.peers
  /\ peerIdToSocketId' = r.p2s
  /\ sioRooms' = r.sio

\* namespace.on('connection'): the transport assigns the next unused id
Connect(i) ==
  /\ Idle
  /\ instance.started
  /\ status[Sock(i)] = "fresh"
  /\ \A j \in 1..(i - 1) : status[Sock(j)] # "fresh"
  /\ status' = [status EXCEPT ![Sock(i)] = "connected"]
  /\ sioRooms' = SioJoin(sioRooms, Sock(i), Sock(i))
  /\ lastEvent' = Event("connection", Sock(i), NoData, <<>>, 0, "none")
  /\ UNCHANGED <<rooms, peers, peerIdToSocketId, mongoEnabled, pending, joinCount, usuario, iceServers, instance, client, outbox, log, manager, kafka>>

\* socket.on('notificar')
Notificar(s, data) ==
  /\ Idle
  /\ status[s] = "connected"
  /\ lastEvent' = Event("notificar", s, data, RelayRoute("notificar", s, data), 0, "none")
  /\ UNCHANGED <<status, sioRooms, rooms, peers, peerIdToSocketId, mongoEnabled, pending, joinCount, usuario, iceServers, instance, client, outbox, log, manager, kafka>>

\* handleOffer, handleAnswer and handleIceCandidate call this.namespace.to
\* once 'to' is resolved: on a plugin whose namespace is null the call
\* throws a TypeError out of the plugin's listener, after the listener of
\* Relay, registered first, has run
ForwardThrows(data) ==
  /\ instance.handlers
  /\ ~instance.pluginNamespace
  /\ data.tipo \in {"webrtc:offer", "webrtc:answer", "webrtc:ice-candidate"}
  /\ data.to # None
  /\ data.body # None
  /\ MapHas(peerIdToSocketId, data.to)

\* variant: the store write is started and not awaited
OnRelayHandler_FireAndForget(s, data) ==
  /\ Idle
  /\ status[s] = "connected"
  /\ mongoEnabled => Len(pending) < MaxPending
  /\ data.tipo = "webrtc:join" => joinCount < MaxJoins
  /\ joinCount' = IF data.tipo = "webrtc:join" THEN joinCount + 1 ELSE joinCount
  /\ LET r == IF instance.handlers THEN PluginOnRelay(Tables, s, data) ELSE Result(Tables, <<>>, 0)
     IN  /\ SetTables(r)
         /\ pending' = pending
         /\ lastEvent' = Event("relay", s, data, RelayRoute("relay", s, data) \o r.out, r.warn, "none")
  /\ UNCHANGED <<status, mongoEnabled, usuario, iceServers, instance, log, manager, kafka>>

\* socket.on('relay'): the listener of Relay, then the listener of the plugin.
\* With the mongo plugin enabled the listener of Relay is suspended at
\* await saveMessage, before its switch.
OnRelayHandler(s, data) ==
  /\ Idle
  /\ status[s] = "connected"
  /\ mongoEnabled => Len(pending) < MaxPending
  /\ data.tipo = "webrtc:join" => joinCount < MaxJoins
  /\ joinCount' = IF data.tipo = "webrtc:join" THEN joinCount + 1 ELSE joinCount
  /\ instance' = [instance EXCEPT !.uncaught = @ \/ ForwardThrows(data)]
  /\ LET r == IF instance.handlers /\ ~ForwardThrows(data)
              THEN PluginOnRelay(Tables, s, data)
              ELSE Result(Tables, <<>>, 0)
     IN  /\ SetTables(r)
         /\ IF mongoEnabled
            THEN /\ pending' = Append(pending, [socket |-> s, data |-> data])
                 /\ lastEvent' = Event("relay", s, data, r.out, r.warn, "none")
            ELSE /\ pending' = pending
                 /\ lastEvent' = Event("relay", s, data, RelayRoute("relay", s, data) \o r.out, r.warn, "none")
  /\ UNCHANGED <<status, mongoEnabled, usuario, iceServers, log, manager, kafka>>

\* a 'relay' sent by an application or signaling client
OnRelay(s, data) == OnRelayHandler(s, data) /\ UNCHANGED <<client, outbox>>

\* a 'relay' received while no 'relay' handler is suspended
OnRelaySerial(s, data) == pending = <<>> /\ OnRelay(s, data)

\* saveMessage settles: the listener of Relay resumes at its switch
RelayResume(i) ==
  /\ Idle
  /\ i \in 1..Len(pending)
  /\ pending' = SubSeq(pending, 1, i - 1) \o SubSeq(pending, i + 1, Len(pending))
  /\ lastEvent' = Event("relay:resume", pending[i].socket, pending[i].data,
                        RelayRoute("relay", pending[i].socket, pending[i].data), 0, "none")
  /\ UNCHANGED <<status, sioRooms, rooms, peers, peerIdToSocketId, mongoEnabled, joinCount, usuario, iceServers, instance, client, outbox, log, manager, kafka>>

\* variant: the rejection of insertOne reaches the listener of Relay, which
\* ends at its await
SaveMessageFails_Aborts(i) ==
  /\ Idle
  /\ i \in 1..Len(pending)
  /\ pending' = SubSeq(pending, 1, i - 1) \o SubSeq(pending, i + 1, Len(pending))
  /\ lastEvent' = Event("relay:resume", pending[i].socket, pending[i].data, <<>>, 1, "none")
  /\ UNCHANGED <<status, sioRooms, rooms, peers, peerIdToSocketId, mongoEnabled, joinCount, usuario, iceServers, instance, client, outbox, log, manager, kafka>>

\* insertOne rejects: RelayMongo.saveMessage catches the error and emits
\* 'error', which the listeners Relay registered log; saveMessage resolves
\* and the listener of Relay resumes at its switch
SaveMessageFails(i) ==
  /\ Idle
  /\ i \in 1..Len(pending)
  /\ pending' = SubSeq(pending, 1, i - 1) \o SubSeq(pending, i + 1, Len(pending))
  /\ lastEvent' = Event("relay:resume", pending[i].socket, pending[i].data,
                        RelayRoute("relay", pending[i].socket, pending[i].data), 1, "none")
  /\ UNCHANGED <<status, sioRooms, rooms, peers, peerIdToSocketId, mongoEnabled, joinCount, usuario, iceServers, instance, client, outbox, log, manager, kafka>>

\* socket.emit('unirse', room, fn): no listener of that event is registered,
\* the event is ignored and fn is never called
UnirseHandler(s, room) ==
  /\ Idle
  /\ status[s] = "connected"
  /\ lastEvent' = Event("unirse", s, [NoData EXCEPT !.room = room], <<>>, 0, "none")
  /\ UNCHANGED <<status, sioRooms, rooms, peers, peerIdToSocketId, mongoEnabled, pending, joinCount,
                 usuario, iceServers, instance, log, manager, kafka>>

\* an 'unirse' sent by an application client
Unirse(s, room) == UnirseHandler(s, room) /\ UNCHANGED <<client, outbox>>

\* the transport reports the disconnect: the socket has left its rooms when
\* the 'disconnect' listeners run
Disconnect(s) ==
  /\ Idle
  /\ status[s] = "connected"
  /\ status' = [status EXCEPT ![s] = "closed"]
  /\ LET closed == [Tables EXCEPT !.sio = SioLeaveAll(sioRooms, s)]
         r == IF instance.handlers THEN handleLeaveRoom(closed, s) ELSE Result(closed, <<>>, 0)
     IN  /\ SetTables(r)
         /\ lastEvent' = Event("disconnect", s, NoData,
                               [k \in DOMAIN r.out |-> [r.out[k] EXCEPT !.to = @ \ {s}]],
                               r.warn, "none")
  /\ UNCHANGED <<mongoEnabled, pending, joinCount, usuario, iceServers, instance, client, outbox, log, manager, kafka>>

\* The reactor is single-threaded: a handler runs to its end (or to its
\* await), its packets are written out, and the next event is taken.
NextTick ==
  /\ ~Idle
  /\ lastEvent' = IdleEvent
  /\ UNCHANGED <<status, sioRooms, rooms, peers, peerIdToSocketId, mongoEnabled, pending, joinCount, usuario, iceServers, instance, client, outbox, log, manager, kafka>>

\* socket.on('webrtc:get-ice-servers', callback), a listener of the plugin
GetIceServers(s, hasCallback) ==
  /\ Idle
  /\ status[s] = "connected"
  /\ lastEvent' = Event("webrtc:get-ice-servers", s, NoData,
                        IF instance.handlers /\ hasCallback
                        THEN <<Emit("WebRTCPlugin", "ack", IceAnswer(Tables, s), SocketEmit(s))>>
                        ELSE <<>>,
                        0, "none")
  /\ UNCHANGED <<status, sioRooms, rooms, peers, peerIdToSocketId, mongoEnabled, pending, joinCount,
                 usuario, iceServers, instance, client, outbox, log, manager, kafka>>

\* variant: the identity is stored only while the connection has none
Identificar_FirstOnly(s, u, hasFn) ==
  /\ Idle
  /\ status[s] = "connected"
  /\ usuario' = [usuario EXCEPT ![s] = IF @ = None THEN u ELSE @]
  /\ lastEvent' = Event("identificar", s, [usuario |-> u, replaced |-> usuario[s]], <<>>, 0,
                        IF hasFn THEN "true" ELSE "none")
  /\ UNCHANGED <<status, sioRooms, rooms, peers, peerIdToSocketId, mongoEnabled, pending, joinCount,
                 iceServers, instance, client, outbox, log, manager, kafka>>

\* socket.on('identificar', usuario, fn); the event records the argument and
\* the value of socket.data.usuario it replaced
Identificar(s, u, hasFn) ==
  /\ Idle
  /\ status[s] = "connected"
  /\ usuario' = [usuario EXCEPT ![s] = u]
  /\ lastEvent' = Event("identificar", s, [usuario |-> u, replaced |-> usuario[s]], <<>>, 0,
                        IF hasFn THEN "true" ELSE "none")
  /\ UNCHANGED <<status, sioRooms, rooms, peers, peerIdToSocketId, mongoEnabled, pending, joinCount,
                 iceServers, instance, client, outbox, log, manager, kafka>>

\* Relay.start(): _setupPlugins registers the mongo plugin when its url is
\* configured and its initialize() succeeds, and no other plugin;
\* _setupSocketIO attaches the listeners of Relay only
Start ==
  /\ ~instance.started
  /\ \E redis \in Outcomes, mongo \in Outcomes :
       LET inst == setupSocketIO(setupPlugins(setupRedis(instance, redis), mongo))
       IN  /\ instance' = [inst EXCEPT !.started = TRUE]
           /\ mongoEnabled' = isEnabled(inst)
  /\ UNCHANGED <<status, sioRooms, rooms, peers, peerIdToSocketId, pending, joinCount, lastEvent,
                 usuario, iceServers, client, outbox, log, manager, kafka>>

\* WebRTCManager.joinRoom(roomId, peerId): emits 'unirse' with a callback
ClientJoinRoom(s, roomId, peerId) ==
  /\ status[s] = "connected"
  /\ client[s].phase = "idle"
  /\ client' = [client EXCEPT ![s] = Client("awaiting-ack", roomId, IF peerId = None THEN s ELSE peerId)]
  /\ outbox' = [outbox EXCEPT ![s] = Append(@, [ev |-> "unirse", room |-> roomId, data |-> NoData])]
  /\ UNCHANGED <<status, sioRooms, rooms, peers, peerIdToSocketId, mongoEnabled, pending, joinCount,
                 lastEvent, usuario, iceServers, instance, log, manager, kafka>>

\* the server takes the next event of a client; the callback of joinRoom
\* runs when 'unirse' is acknowledged with a true value and emits the
\* 'webrtc:join' envelope
ServerReceive(s) ==
  /\ outbox[s] # <<>>
  /\ LET m == Head(outbox[s])
     IN  IF m.ev = "unirse"
         THEN /\ UnirseHandler(s, m.room)
              /\ IF lastEvent'.ack = "true"
                 THEN /\ outbox' = [outbox EXCEPT ![s] =
                           Append(Tail(@),
                                  [ev |-> "relay", room |-> None,
                                   data |-> Envelope("room", client[s].roomId, "webrtc:join",
                                                     client[s].roomId, client[s].peerId, None, None)])]
                      /\ client' = [client EXCEPT ![s].phase = "join-sent"]
                 ELSE /\ outbox' = [outbox EXCEPT ![s] = Tail(@)]
                      /\ client' = client
         ELSE /\ OnRelayHandler(s, m.data)
              /\ outbox' = [outbox EXCEPT ![s] = Tail(@)]
              /\ client' = client

\* socket.emit(ev) or socket.emit(ev, null) with ev 'notificar' or 'relay':
\* the first read of data.destino (for 'relay' also the read of data.tipo in
\* the listener of the plugin) throws a TypeError that nothing catches;
\* nothing is emitted or saved
NoPayload(s, ev) ==
  /\ Idle
  /\ status[s] = "connected"
  /\ instance' = [instance EXCEPT !.uncaught = TRUE]
  /\ lastEvent' = Event(ev, s, NoData, <<>>, 0, "TypeError")
  /\ UNCHANGED <<status, sioRooms, rooms, peers, peerIdToSocketId, mongoEnabled, pending, joinCount,
                 usuario, iceServers, client, outbox, log, manager, kafka>>

\* WebRTCManager.handleOffer: the client that receives a forwarded offer
\* addressed to its socket id or to its peer id answers with 'to' set to the
\* 'from' of the offer
ClientHandleOffer(b) ==
  /\ status[b] = "connected"
  /\ MapHas(peers, b)
  /\ outbox[b] = <<>>
  /\ \E k \in DOMAIN lastEvent.out :
       LET e == lastEvent.out[k]
       IN  /\ e.src = "WebRTCPlugin"
           /\ e.msg.tipo = "webrtc:offer"
           /\ b \in e.to
           /\ e.msg.to = b \/ e.msg.to = peers[b].peerId
           /\ outbox' = [outbox EXCEPT ![b] =
                Append(@, [ev |-> "relay", room |-> None,
                           data |-> Envelope("room", peers[b].roomId, "webrtc:answer",
                                             None, None, e.msg.from, Sdp)])]
  /\ UNCHANGED <<status, sioRooms, rooms, peers, peerIdToSocketId, mongoEnabled, pending, joinCount,
                 lastEvent, usuario, iceServers, instance, client, log, manager, kafka>>

\* WebRTCPlugin.shutdown(): clears the three tables and the namespace
\* reference; the listeners that setupHandlers put on the sockets and the
\* Socket.io rooms stay
Shutdown ==
  /\ Idle
  /\ instance.handlers
  /\ instance.pluginNamespace
  /\ instance' = [instance EXCEPT !.pluginNamespace = FALSE]
  /\ rooms' = EmptyMap
  /\ peers' = EmptyMap
  /\ peerIdToSocketId' = EmptyMap
  /\ UNCHANGED <<status, sioRooms, mongoEnabled, pending, joinCount, lastEvent, usuario, iceServers,
                 client, outbox, log, manager, kafka>>

\* the initializeIceServers() call of the constructor settles (answer of
\* the server, or timeout and defaults)
ManagerIceReady ==
  /\ ~manager.iceServersReady
  /\ manager' = [manager EXCEPT !.iceServersReady = TRUE]
  /\ UNCHANGED <<status, sioRooms, rooms, peers, peerIdToSocketId, mongoEnabled, pending, joinCount,
                 lastEvent, usuario, iceServers, instance, client, outbox, log, kafka>>

\* WebRTCManager.handlePeerJoined: creates a connection when this.peers has
\* none for the socket id
ManagerPeerJoined(remote) ==
  /\ Len(manager.created) + Len(manager.waiting) < MaxCreated
  /\ manager' = IF MapHas(manager.peers, remote)
                THEN manager
                ELSE createPeerConnection(manager, remote, "webrtc:peer-joined")
  /\ UNCHANGED <<status, sioRooms, rooms, peers, peerIdToSocketId, mongoEnabled, pending, joinCount,
                 lastEvent, usuario, iceServers, instance, client, outbox, log, kafka>>

\* WebRTCManager.handleOffer for an offer addressed to this client: applies
\* the offer to the connection this.peers has for 'from', or to the one it
\* creates
ManagerOffer(remote) ==
  /\ Len(manager.created) + Len(manager.waiting) < MaxCreated
  /\ manager' = IF MapHas(manager.peers, remote)
                THEN [manager EXCEPT !.created[manager.peers[remote]].remoteDescription = TRUE]
                ELSE createPeerConnection(manager, remote, "webrtc:offer")
  /\ UNCHANGED <<status, sioRooms, rooms, peers, peerIdToSocketId, mongoEnabled, pending, joinCount,
                 lastEvent, usuario, iceServers, instance, client, outbox, log, kafka>>

\* a suspended createPeerConnection continues after its await
ManagerResume(i) ==
  /\ i \in 1..Len(manager.waiting)
  /\ manager' = resumePeerConnection(manager, i)
  /\ UNCHANGED <<status, sioRooms, rooms, peers, peerIdToSocketId, mongoEnabled, pending, joinCount,
                 lastEvent, usuario, iceServers, instance, client, outbox, log, kafka>>

\* WebRTCManager.handlePeerLeft
ManagerPeerLeft(remote) ==
  /\ MapHas(manager.peers, remote)
  /\ manager' = closePeerConnection(manager, remote)
  /\ UNCHANGED <<status, sioRooms, rooms, peers, peerIdToSocketId, mongoEnabled, pending, joinCount,
                 lastEvent, usuario, iceServers, instance, client, outbox, log, kafka>>

\* pasarela.on('connection') of the standalone server
PasarelaConnect(i) == Connect(i)

\* socket.on('pasarela') up to its await: the envelope is produced to
\* 'pasarela-events' with the sender and a type
PasarelaHandler(s, data) ==
  /\ Idle
  /\ status[s] = "connected"
  /\ Len(kafka) < MaxTopic
  /\ kafka' = Append(kafka, KafkaMessage(s, data))
  /\ lastEvent' = Event("pasarela", s, data, <<>>, 0, "none")
  /\ UNCHANGED <<status, sioRooms, rooms, peers, peerIdToSocketId, mongoEnabled, pending, joinCount,
                 usuario, iceServers, instance, client, outbox, log, manager>>

\* producer.send resolves: the handler continues with its switch
PasarelaResume(i) ==
  /\ Idle
  /\ i \in 1..Len(kafka)
  /\ ~kafka[i].routed
  /\ kafka' = Settle([kafka EXCEPT ![i].routed = TRUE])
  /\ lastEvent' = Event("pasarela:resume", kafka[i].socket, kafka[i].value.data,
                        <<Emit("Pasarela", "pasarela", kafka[i].value.data,
                               PasarelaTargets(kafka[i].socket, kafka[i].value.data))>>,
                        0, "none")
  /\ UNCHANGED <<status, sioRooms, rooms, peers, peerIdToSocketId, mongoEnabled, pending, joinCount,
                 usuario, iceServers, instance, client, outbox, log, manager>>

\* eachMessage of the consumer of 'pasarela-events': the record is emitted
\* as 'events' to the whole namespace; records with one key are consumed in
\* the order they were produced
EachMessage(i) ==
  /\ Idle
  /\ i \in 1..Len(kafka)
  /\ ~kafka[i].consumed
  /\ \A j \in 1..(i - 1) : kafka[j].socket = kafka[i].socket => kafka[j].consumed
  /\ kafka' = Settle([kafka EXCEPT ![i].consumed = TRUE])
  /\ lastEvent' = Event("kafka:events", kafka[i].socket, kafka[i].value.data,
                        <<Emit("Pasarela", "events", kafka[i].value, NamespaceEmit)>>,
                        0, "none")
  /\ UNCHANGED <<status, sioRooms, rooms, peers, peerIdToSocketId, mongoEnabled, pending, joinCount,
                 usuario, iceServers, instance, client, outbox, log, manager>>

\* a handler of the relay namespace, or start(), calls _emitLog
EmitLog ==
  /\ log.emitted < MaxLogs
  /\ log' = emitLog(log)
  /\ UNCHANGED <<status, sioRooms, rooms, peers, peerIdToSocketId, mongoEnabled, pending, joinCount,
                 lastEvent, usuario, iceServers, instance, client, outbox, manager, kafka>>

\* monitorNamespace.on('connection'): logs the connection, then sends the
\* last HistoryLen records as 'logs:history'
MonitorConnect ==
  /\ log.monitor = "fresh"
  /\ log.emitted < MaxLogs
  /\ LET l == emitLog(log)
     IN  log' = [l EXCEPT !.monitor = "connected", !.history = SliceLast(l.buffer, HistoryLen)]
  /\ UNCHANGED <<status, sioRooms, rooms, peers, peerIdToSocketId, mongoEnabled, pending, joinCount,
                 lastEvent, usuario, iceServers, instance, client, outbox, manager, kafka>>

\* socket.on('disconnect') of the monitor namespace
MonitorDisconnect ==
  /\ log.monitor = "connected"
  /\ log.emitted < MaxLogs
  /\ log' = [emitLog(log) EXCEPT !.monitor = "closed"]
  /\ UNCHANGED <<status, sioRooms, rooms, peers, peerIdToSocketId, mongoEnabled, pending, joinCount,
                 lastEvent, usuario, iceServers, instance, client, outbox, manager, kafka>>

\* One instance without the persistence plugin (routing is synchronous),
\* serving signaling clients.
InitSync == Init /\ ~mongoEnabled /\ iceServers = buildIceServers(NoOptions)

Next ==
  \/ \E i \in 1..NumSockets : Connect(i)
  \/ \E s \in Sockets, data \in SignalEnvelopes \cup RoomEnvelopes : OnRelay(s, data)
  \/ \E s \in Sockets : Disconnect(s)
  \/ NextTick

Spec == InitSync /\ [][Next]_vars

\* One instance with or without the persistence plugin, serving application
\* clients on both channels.
NextRouting ==
  \/ \E i \in 1..NumSockets : Connect(i)
  \/ \E s \in Sockets, data \in PlainEnvelopes : Notificar(s, data)
  \/ \E s \in Sockets, data \in PlainEnvelopes : OnRelaySerial(s, data)
  \/ \E i \in 1..MaxPending : RelayResume(i)
  \/ \E i \in 1..MaxPending : SaveMessageFails(i)
  \/ \E s \in Sockets, room \in RoomIds : Unirse(s, room)
  \/ \E s \in Sockets : Disconnect(s)
  \/ NextTick

\* the routing does not read the ICE configuration: the default one is taken
InitRouting == Init /\ iceServers = buildIceServers(NoOptions)

SpecRouting == InitRouting /\ [][NextRouting]_vars

\* A signaling client that has no peer session joins the room of the
\* existing sessions (any room when there is none) under a peer id no
\* session uses.
FreshJoin(s, data) ==
  /\ data.roomId # None
  /\ ~MapHas(peers, s)
  /\ \A x \in DOMAIN peers :
       /\ peers[x].peerId # (IF data.peerId = None THEN s ELSE data.peerId)
       /\ peers[x].roomId = data.roomId
  /\ OnRelay(s, data)

\* An empty signaling manager that only receives such joins.
NextFreshJoins ==
  \/ \E i \in 1..NumSockets : Connect(i)
  \/ \E s \in Sockets, data \in JoinEnvelopes : FreshJoin(s, data)
  \/ NextTick

SpecFreshJoins == InitSync /\ [][NextFreshJoins]_vars

\* One instance whose signaling plugin was built with any of the ICE options.
IceEnvelopes ==
  {Envelope("room", r, "webrtc:join", r, None, None, None) : r \in RoomIds}
    \cup LeaveEnvelopes
    \cup {Envelope("room", None, "webrtc:offer", None, None, Sock(1), Sdp)}

NextIce ==
  \/ \E i \in 1..NumSockets : Connect(i)
  \/ \E s \in Sockets, data \in IceEnvelopes : OnRelay(s, data)
  \/ \E s \in Sockets, hasCallback \in BOOLEAN : GetIceServers(s, hasCallback)
  \/ \E s \in Sockets : Disconnect(s)
  \/ NextTick

InitIce == Init /\ ~mongoEnabled

SpecIce == InitIce /\ [][NextIce]_vars

\* An instance as createRelay(options) builds it, then started with start().
InitConstructed ==
  /\ status = [s \in Sockets |-> "fresh"]
  /\ sioRooms = [r \in Names |-> {}]
  /\ rooms = EmptyMap
  /\ peers = EmptyMap
  /\ peerIdToSocketId = EmptyMap
  /\ mongoEnabled = FALSE
  /\ pending = <<>>
  /\ joinCount = 0
  /\ lastEvent = IdleEvent
  /\ usuario = [s \in Sockets |-> None]
  /\ iceServers = buildIceServers(NoOptions)
  /\ instance \in {Configured(w, r, m) : w \in WebRTCOptions, r \in BOOLEAN, m \in BOOLEAN}
  /\ client = [s \in Sockets |-> NoClient]
  /\ outbox = [s \in Sockets |-> <<>>]
  /\ log = NoLog
  /\ manager = NoManager
  /\ kafka = <<>>

StartEnvelopes ==
  {Envelope("room", r, "webrtc:join", r, p, None, None) : r \in RoomIds, p \in PeerIds \cup {None}}
    \cup LeaveEnvelopes

NextStart ==
  \/ Start
  \/ \E i \in 1..NumSockets : Connect(i)
  \/ \E s \in Sockets, data \in StartEnvelopes : OnRelaySerial(s, data)
  \/ \E i \in 1..MaxPending : RelayResume(i)
  \/ \E s \in Sockets : Disconnect(s)
  \/ NextTick

SpecStart == InitConstructed /\ [][NextStart]_vars

\* Application clients that identify themselves.
NextIdentify ==
  \/ \E i \in 1..NumSockets : Connect(i)
  \/ \E s \in Sockets, u \in Usuarios, hasFn \in BOOLEAN : Identificar(s, u, hasFn)
  \/ \E s \in Sockets : Disconnect(s)
  \/ NextTick

SpecIdentify == InitSync /\ [][NextIdentify]_vars

\* Signaling clients (WebRTCManager) on sockets that stay connected; every
\* step that can be taken is eventually taken.
NextClient ==
  \/ \E i \in 1..NumSockets : Connect(i)
  \/ \E s \in Sockets, r \in RoomIds, p \in PeerIds \cup {None} : ClientJoinRoom(s, r, p)
  \/ \E s \in Sockets : ServerReceive(s)
  \/ \E s \in Sockets : GetIceServers(s, TRUE)
  \/ NextTick

SpecClient == InitSync /\ [][NextClient]_vars /\ WF_vars(NextClient)

\* One instance with the persistence plugin, whose clients send envelopes
\* while earlier ones are still being saved; the writes settle in any order.
OrderEnvelopes ==
  {Envelope(d, None, "ping", None, None, None, None) : d \in {"yo", "nosotros"}}

NextOrdering ==
  \/ \E i \in 1..NumSockets : Connect(i)
  \/ \E s \in Sockets, data \in OrderEnvelopes : OnRelay(s, data)
  \/ \E i \in 1..MaxPending : RelayResume(i)
  \/ \E i \in 1..MaxPending : SaveMessageFails(i)
  \/ NextTick

InitOrdering == InitRouting /\ mongoEnabled

SpecOrdering == InitOrdering /\ [][NextOrdering]_vars

\* Clients that send malformed events: no payload, a payload that is not an
\* object or has no field (every field reads undefined), a room destination
\* without a room, signaling messages with missing fields.
MalformedEnvelopes ==
  {NoData, Envelope("room", None, "ping", None, None, None, None)}
    \cup {e \in SignalEnvelopes : e.roomId = None /\ (e.to = None \/ e.body = None)}

NextMalformed ==
  \/ \E i \in 1..NumSockets : Connect(i)
  \/ \E s \in Sockets, data \in MalformedEnvelopes : Notificar(s, data)
  \/ \E s \in Sockets, data \in MalformedEnvelopes : OnRelay(s, data)
  \/ \E s \in Sockets, ev \in {"notificar", "relay"} : NoPayload(s, ev)
  \/ \E s \in Sockets : Disconnect(s)
  \/ NextTick

SpecMalformed == InitSync /\ [][NextMalformed]_vars

\* Signaling clients that join once and stay joined, send offers to a peer
\* id or a socket id, and answer the offers they receive.
HandshakeOffers ==
  {Envelope("room", None, "webrtc:offer", None, None, p, Sdp) : p \in PeerIds \cup Sockets}

NextHandshake ==
  \/ \E i \in 1..NumSockets : Connect(i)
  \/ \E s \in Sockets, data \in JoinEnvelopes : FreshJoin(s, data)
  \/ \E s \in Sockets, data \in HandshakeOffers : OnRelay(s, data)
  \/ \E b \in Sockets : ClientHandleOffer(b)
  \/ \E b \in Sockets : ServerReceive(b)
  \/ NextTick

SpecHandshake == InitSync /\ [][NextHandshake]_vars

\* Signaling clients on an instance whose application shuts the signaling
\* plugin down while sockets stay connected.
ShutdownEnvelopes ==
  {Envelope("room", r, "webrtc:join", r, p, None, None) : r \in RoomIds, p \in PeerIds \cup {None}}
    \cup LeaveEnvelopes
    \cup {Envelope("room", None, t, None, None, p, Sdp) :
            t \in {"webrtc:offer", "webrtc:answer", "webrtc:ice-candidate"},
            p \in PeerIds \cup {Sock(1)}}

NextShutdown ==
  \/ \E i \in 1..NumSockets : Connect(i)
  \/ \E s \in Sockets, data \in ShutdownEnvelopes : OnRelay(s, data)
  \/ \E s \in Sockets : Disconnect(s)
  \/ Shutdown
  \/ NextTick

SpecShutdown == InitSync /\ [][NextShutdown]_vars

\* One WebRTCManager that receives 'webrtc:peer-joined', 'webrtc:offer' and
\* 'webrtc:peer-left' events about the remote ids in any order, while its
\* ICE configuration may or may not have arrived.
NextManager ==
  \/ ManagerIceReady
  \/ \E remote \in RemoteIds : ManagerPeerJoined(remote)
  \/ \E remote \in RemoteIds : ManagerOffer(remote)
  \/ \E i \in 1..MaxCreated : ManagerResume(i)
  \/ \E remote \in RemoteIds : ManagerPeerLeft(remote)

SpecManager == InitSync /\ [][NextManager]_vars

\* The standalone server with its Kafka producer and consumer connected.
PasarelaEnvelopes ==
  {Envelope(d, None, "ping", None, None, None, None) : d \in {"yo", "ustedes", "nosotros"}}

NextPasarela ==
  \/ \E i \in 1..NumSockets : PasarelaConnect(i)
  \/ \E s \in Sockets, data \in PasarelaEnvelopes : PasarelaHandler(s, data)
  \/ \E i \in 1..MaxTopic : PasarelaResume(i)
  \/ \E i \in 1..MaxTopic : EachMessage(i)
  \/ NextTick

SpecPasarela == InitSync /\ [][NextPasarela]_vars

\* The log buffer under any sequence of _emitLog calls, with one client of
\* the monitor namespace.
NextLog ==
  \/ EmitLog
  \/ MonitorConnect
  \/ MonitorDisconnect

SpecLog == InitSync /\ [][NextLog]_vars

(***************************************************************************)
(* What the last handler delivered.                                        *)
(***************************************************************************)
\* how many times the handler delivered message m on channel ev to connection c
Delivered(c, ev, m) ==
  Cardinality({k \in DOMAIN lastEvent.out :
                 /\ lastEvent.out[k].ev = ev
                 /\ lastEvent.out[k].msg = m
                 /\ c \in lastEvent.out[k].to})

\* the last handler ran the switch of Relay on lastEvent.data
Routed ==
  \/ lastEvent.kind \in {"notificar", "relay:resume"}
  \/ lastEvent.kind = "relay" /\ ~mongoEnabled

Channel == IF lastEvent.kind = "notificar" THEN "notificar" ELSE "relay"

\* deliveries of the routed envelope itself
Got(c) == Delivered(c, Channel, lastEvent.data)

C2_OthersExactlyOnce ==
  (Routed /\ lastEvent.data.destino = "ustedes") =>
    \A c \in Sockets :
      Got(c) = IF status[c] = "connected" /\ c # lastEvent.socket THEN 1 ELSE 0

C2_Witness ==
  /\ Routed
  /\ lastEvent.data.destino = "ustedes"
  /\ Cardinality(Connected) = NumSockets
  /\ Got(lastEvent.socket) = 0
  /\ \A c \in Sockets \ {lastEvent.socket} : Got(c) = 1

Members(r) == IF r \in DOMAIN sioRooms THEN sioRooms[r] ELSE {}

\* C4 as stated: an envelope sent on 'relay' with destination 'room' and room
\* name R by a member of R is delivered exactly once to every other member
\* of R.
C4_Original ==
  (/\ Routed
   /\ lastEvent.data.destino = "room"
   /\ lastEvent.data.tipo = "ping"
   /\ lastEvent.socket \in Members(lastEvent.data.room)) =>
    \A b \in Members(lastEvent.data.room) \ {lastEvent.socket} : Got(b) = 1

\* C5 as stated: an envelope with destination 'room' and room name R is
\* delivered to no connection that is not a member of R.
C5_Original ==
  (/\ Routed
   /\ lastEvent.data.destino = "room"
   /\ lastEvent.data.tipo = "ping"
   /\ lastEvent.data.room # None) =>
    \A c \in Sockets : Got(c) > 0 => c \in Members(lastEvent.data.room)

C7_Original ==
  lastEvent.kind = "unirse" =>
    /\ lastEvent.ack = "true"
    /\ lastEvent.socket \in Members(lastEvent.data.room)

AllPeerIds == PeerIds \cup Sockets

\* peerIdToSocketId is the exact inverse of socket id -> peers[socket].peerId
ExactInverse ==
  \A p \in AllPeerIds, s \in Sockets :
    (MapHas(peerIdToSocketId, p) /\ peerIdToSocketId[p] = s)
      <=> (MapHas(peers, s) /\ peers[s].peerId = p)

\* C8 as stated: in every reachable state of the signaling manager
\* peerIdToSocketId[p] = s if and only if peers[s].peerId = p.
C8_Original == ExactInverse

\* C9: from an empty signaling manager, after N distinct connections without
\* a session each joined the same room once under pairwise distinct peer ids,
\* peerIdToSocketId has exactly N entries and is the exact inverse of
\* socket id -> peer id.
C9_FreshJoinsBijection ==
  /\ Cardinality(DOMAIN peerIdToSocketId) = joinCount
  /\ Cardinality(DOMAIN peers) = joinCount
  /\ ExactInverse

C9_Witness ==
  /\ joinCount = MaxJoins
  /\ Cardinality(DOMAIN peerIdToSocketId) = MaxJoins
  /\ \E s \in DOMAIN peers : peers[s].peerId \in PeerIds
  /\ \E s \in DOMAIN peers : peers[s].peerId = s

\* the 'webrtc:peer-left' emits of a handler
PeerLeft(out) ==
  {k \in DOMAIN out : out[k].src = "WebRTCPlugin" /\ out[k].msg.tipo = "webrtc:peer-left"}

\* the handler that just ran is a webrtc:leave or a disconnect of s
Terminates(ev, s) ==
  /\ ev.socket = s
  /\ \/ ev.kind = "disconnect"
     \/ ev.kind = "relay" /\ ev.data.tipo = "webrtc:leave"

\* C10: a webrtc:leave or a disconnect of a connection that holds a peer
\* session removes the session and emits exactly one 'webrtc:peer-left',
\* carrying the session's peer id, to the connections that remain in the
\* session's room and not to the leaving connection; a webrtc:leave or a
\* disconnect of a connection without a session (a disconnect after a leave)
\* emits none.
C10_OnePeerLeftPerSession ==
  [][\A s \in Sockets :
       Terminates(lastEvent', s) =>
         IF MapHas(peers, s)
         THEN /\ ~MapHas(peers', s)
              /\ Cardinality(PeerLeft(lastEvent'.out)) = 1
              /\ \A k \in PeerLeft(lastEvent'.out) :
                   /\ lastEvent'.out[k].msg.peerId = peers[s].peerId
                   /\ s \notin lastEvent'.out[k].to
                   /\ lastEvent'.out[k].to =
                        {c \in sioRooms'[peers[s].roomId] : status'[c] = "connected"} \ {s}
         ELSE /\ ~MapHas(peers', s)
              /\ PeerLeft(lastEvent'.out) = {}]_vars

C10_Witness ==
  /\ lastEvent.kind = "disconnect"
  /\ ~MapHas(peers, lastEvent.socket)
  /\ \E k \in PeerLeft(lastEvent.out) : Cardinality(lastEvent.out[k].to) = NumSockets - 1

\* C11: after a connection has disconnected, its id is in the member set of
\* no room of the signaling manager's rooms table, whatever rooms it joined
\* before.
C11_Original ==
  \A s \in Sockets :
    status[s] = "closed" => \A r \in DOMAIN rooms : s \notin rooms[r]

\* C12: right after a webrtc:leave or a disconnect of a connection, peers has
\* no entry for it and no entry of peerIdToSocketId maps a peer id to it,
\* whatever joins it performed before.
C12_Original ==
  \A s \in Sockets :
    Terminates(lastEvent, s) =>
      /\ ~MapHas(peers, s)
      /\ \A p \in DOMAIN peerIdToSocketId : peerIdToSocketId[p] # s

SignalTipos == {"webrtc:offer", "webrtc:answer", "webrtc:ice-candidate"}

\* the emits of the signaling plugin in the handler that just ran
PluginEmits == {k \in DOMAIN lastEvent.out : lastEvent.out[k].src = "WebRTCPlugin"}

\* the handler that just ran is an offer, answer or ice-candidate with a
\* 'to' and a payload
Signalled ==
  /\ lastEvent.kind = "relay"
  /\ lastEvent.data.tipo \in SignalTipos
  /\ lastEvent.data.to # None
  /\ lastEvent.data.body # None

\* C13: an offer, answer or ice-candidate whose 'to' resolves through
\* peerIdToSocketId is delivered to the resolved connection and to no other
\* connection.
C13_Original ==
  (Signalled /\ MapHas(peerIdToSocketId, lastEvent.data.to)) =>
    \A k \in PluginEmits :
      lastEvent.out[k].to \subseteq {peerIdToSocketId[lastEvent.data.to]}

ActualPeerId(s, data) == IF data.peerId = None THEN s ELSE data.peerId

\* the tables are as a join of s with this roomId and peerId leaves them
JoinedAs(s, data) ==
  /\ MapHas(peers, s)
  /\ peers[s] = [roomId |-> data.roomId, peerId |-> ActualPeerId(s, data)]
  /\ MapHas(rooms, data.roomId)
  /\ s \in rooms[data.roomId]
  /\ MapHas(peerIdToSocketId, ActualPeerId(s, data))
  /\ peerIdToSocketId[ActualPeerId(s, data)] = s

\* C15: a join by a connection that is already joined to the same room under
\* the same peer id leaves rooms, peers, peerIdToSocketId and the Socket.io
\* rooms as they were, and the room holds the connection once.
C15_JoinIdempotent ==
  [][\A s \in Sockets :
       (/\ lastEvent'.kind = "relay"
        /\ lastEvent'.socket = s
        /\ lastEvent'.data.tipo = "webrtc:join"
        /\ lastEvent'.data.roomId # None
        /\ JoinedAs(s, lastEvent'.data))
       => /\ rooms' = rooms
          /\ peers' = peers
          /\ peerIdToSocketId' = peerIdToSocketId
          /\ sioRooms' = sioRooms
          /\ Cardinality({m \in rooms'[lastEvent'.data.roomId] : m = s}) = 1]_vars

C15_Witness ==
  /\ lastEvent.kind = "relay"
  /\ lastEvent.data.tipo = "webrtc:join"
  /\ lastEvent.data.roomId # None
  /\ joinCount = 2
  /\ JoinedAs(lastEvent.socket, lastEvent.data)
  /\ \E k \in PluginEmits :
       /\ lastEvent.out[k].msg.tipo = "webrtc:joined"
       /\ lastEvent.socket \in DOMAIN lastEvent.out[k].msg.peers
       /\ lastEvent.out[k].msg.peers[lastEvent.socket] = ActualPeerId(lastEvent.socket, lastEvent.data)

\* C16: no step changes the ICE configuration, and every acknowledged
\* 'webrtc:get-ice-servers' request is answered, to the requester alone, with
\* that configuration, whether or not the requester or anyone else has
\* joined, left, signalled or disconnected.
C16_IceConfigFixed ==
  [][/\ iceServers' = iceServers
     /\ lastEvent'.kind = "webrtc:get-ice-servers" =>
          \A k \in DOMAIN lastEvent'.out :
            /\ lastEvent'.out[k].msg = [iceServers |-> iceServers]
            /\ lastEvent'.out[k].to = {lastEvent'.socket}]_vars

C16_Witness ==
  /\ lastEvent.kind = "webrtc:get-ice-servers"
  /\ lastEvent.out # <<>>
  /\ ~MapHas(peers, lastEvent.socket)
  /\ DOMAIN peers # {}
  /\ \E s \in Sockets : status[s] = "closed"
  /\ iceServers # buildIceServers(NoOptions)
  /\ iceServers # <<>>

\* C17: on an instance started with a plugins.webrtc option other than false,
\* the WebRTC plugin is registered, its handlers are attached, and a
\* 'webrtc:join' with a room id sent on 'relay' leaves the sender with a peer
\* session.
C17_Original ==
  (/\ instance.started
   /\ instance.webrtc # "false"
   /\ lastEvent.kind = "relay"
   /\ lastEvent.data.tipo = "webrtc:join"
   /\ lastEvent.data.roomId # None)
  => /\ instance.webrtcPlugin = "registered"
     /\ instance.handlers
     /\ MapHas(peers, lastEvent.socket)

\* C18: whenever WebRTCManager.joinRoom has been called on a connected
\* socket, the manager eventually emits its 'webrtc:join' envelope.
C18_Original ==
  \A s \in Sockets : (client[s].phase = "awaiting-ack") ~> (client[s].phase = "join-sent")

\* C19 as stated: once a connection has an identity, no step changes it.
C19_Original ==
  [][\A s \in Sockets : usuario[s] # None => usuario'[s] = usuario[s]]_vars

\* C19 amended: the identity of a connection is the argument of its latest
\* 'identificar': every 'identificar' stores its argument, whether or not the
\* connection had an identity, and no other step changes the identity.
C19_LastIdentifyWins ==
  [][\A s \in Sockets :
       IF lastEvent'.kind = "identificar" /\ lastEvent'.socket = s
       THEN /\ usuario'[s] = lastEvent'.data.usuario
            /\ lastEvent'.data.replaced = usuario[s]
       ELSE usuario'[s] = usuario[s]]_vars

C19_Witness ==
  /\ lastEvent.kind = "identificar"
  /\ lastEvent.data.replaced \in Usuarios
  /\ lastEvent.data.replaced # lastEvent.data.usuario
  /\ usuario[lastEvent.socket] = lastEvent.data.usuario
  /\ lastEvent.ack = "true"

\* the emits of the router in a handler's output
RelayEmits(out) == {k \in DOMAIN out : out[k].src = "Relay"}

\* C20: every envelope the router delivers, on 'notificar', on 'relay', and
\* on 'relay' resumed after the persistence plugin saved the message, is
\* equal field for field to the envelope the sender submitted, and goes out
\* on the channel it came in on; a suspended 'relay' handler holds the
\* submitted envelope unchanged.
C20_EnvelopeUnchanged ==
  [][/\ \A k \in RelayEmits(lastEvent'.out) :
          IF lastEvent'.kind = "relay:resume"
          THEN /\ lastEvent'.out[k].ev = "relay"
               /\ \E i \in 1..Len(pending) :
                    /\ pending[i] = [socket |-> lastEvent'.socket, data |-> lastEvent'.out[k].msg]
                    /\ pending' = SubSeq(pending, 1, i - 1) \o SubSeq(pending, i + 1, Len(pending))
          ELSE /\ lastEvent'.kind \in {"notificar", "relay"}
               /\ lastEvent'.out[k].ev = lastEvent'.kind
               /\ lastEvent'.out[k].msg = lastEvent'.data
     /\ (lastEvent'.kind = "relay" /\ mongoEnabled) =>
          pending' = Append(pending, [socket |-> lastEvent'.socket, data |-> lastEvent'.data])]_vars

C20_Witness ==
  /\ lastEvent.kind = "relay:resume"
  /\ lastEvent.data.destino = "ustedes"
  /\ \E k \in RelayEmits(lastEvent.out) :
       /\ lastEvent.out[k].msg = lastEvent.data
       /\ Cardinality(lastEvent.out[k].to) = NumSockets - 1

WriteFailed == lastEvent.kind = "relay:resume" /\ lastEvent.warn = 1

C23_Original ==
  [][lastEvent'.kind = "relay:resume" =>
       \E i \in 1..Len(pending) :
         /\ pending[i] = [socket |-> lastEvent'.socket, data |-> lastEvent'.data]
         /\ pending' = SubSeq(pending, 1, i - 1) \o SubSeq(pending, i + 1, Len(pending))
         /\ \A j \in 1..(i - 1) : pending[j].socket # pending[i].socket]_vars

\* C24: no event a client sends makes a handler throw: no exception or
\* rejection leaves a handler uncaught.
C24_Original == ~instance.uncaught

C28_Original ==
  (/\ lastEvent.kind = "relay"
   /\ lastEvent.data.tipo = "webrtc:answer"
   /\ lastEvent.data.to \in Connected
   /\ MapHas(peers, lastEvent.data.to)
   /\ MapHas(peers, lastEvent.socket))
  => \E k \in DOMAIN lastEvent.out : lastEvent.data.to \in lastEvent.out[k].to

\* C29: an offer, answer or ice-candidate is forwarded to a connection that
\* holds a peer session only if the sender holds a peer session in the same
\* room.
C29_Original ==
  Signalled =>
    \A k \in PluginEmits :
      \A t \in lastEvent.out[k].to :
        MapHas(peers, t) =>
          /\ MapHas(peers, lastEvent.socket)
          /\ peers[lastEvent.socket].roomId = peers[t].roomId

\* C30: a webrtc:join received from a connection that holds a peer session
\* leaves the room and the peer id of that session unchanged.
C30_Original ==
  [][\A s \in Sockets :
       (/\ lastEvent'.kind = "relay"
        /\ lastEvent'.socket = s
        /\ lastEvent'.data.tipo = "webrtc:join"
        /\ MapHas(peers, s))
       => /\ MapHas(peers', s)
          /\ peers'[s] = peers[s]]_vars

\* the peer ids listed by the 'webrtc:joined' reply of the handler that ran
\* in this step
JoinedList ==
  UNION {{lastEvent'.out[k].msg.peers[m] : m \in DOMAIN lastEvent'.out[k].msg.peers} :
           k \in {j \in DOMAIN lastEvent'.out :
                    /\ lastEvent'.out[j].src = "WebRTCPlugin"
                    /\ lastEvent'.out[j].msg.tipo = "webrtc:joined"}}

\* C31: the 'webrtc:joined' reply to a join of room R lists exactly the peer
\* ids of the peer sessions, other than the joiner's own, that were in R
\* immediately before the join.
C31_Original ==
  [][(/\ lastEvent'.kind = "relay"
      /\ lastEvent'.data.tipo = "webrtc:join"
      /\ lastEvent'.data.roomId # None)
     => JoinedList = {peers[m].peerId :
                        m \in {x \in DOMAIN peers \ {lastEvent'.socket} :
                                 peers[x].roomId = lastEvent'.data.roomId}}]_vars

\* the 'webrtc:peer-joined' emits of the handler that ran in this step
PeerJoinedEmits ==
  {k \in DOMAIN lastEvent'.out :
     /\ lastEvent'.out[k].src = "WebRTCPlugin"
     /\ lastEvent'.out[k].msg.tipo = "webrtc:peer-joined"}

\* C32: on a join to room R the 'webrtc:peer-joined' envelope is emitted
\* once, and its receivers are exactly the connections other than the joiner
\* that held a peer session in R before the join.
C32_Original ==
  [][(/\ lastEvent'.kind = "relay"
      /\ lastEvent'.data.tipo = "webrtc:join"
      /\ lastEvent'.data.roomId # None)
     => /\ Cardinality(PeerJoinedEmits) = 1
        /\ \A k \in PeerJoinedEmits :
             lastEvent'.out[k].to =
               {x \in DOMAIN peers \ {lastEvent'.socket} :
                  peers[x].roomId = lastEvent'.data.roomId}]_vars

\* WebRTCPlugin.getRoomPeers: the member set of a room, empty for a room
\* that is not in the table
getRoomPeers(roomId) == IF MapHas(rooms, roomId) THEN rooms[roomId] ELSE {}

\* C33: in every state a room is a key of the rooms table exactly when its
\* member set is non-empty; a room enters the table only by a join to it,
\* with the joiner as its only member, and leaves the table only by the
\* leave or disconnect of its only member; a leave or disconnect of the only
\* member of the session's room removes that room.
C33_RoomIffMembers ==
  /\ [](\A r \in RoomInputs : MapHas(rooms, r) <=> getRoomPeers(r) # {})
  /\ [][/\ \A r \in DOMAIN rooms' \ DOMAIN rooms :
             /\ lastEvent'.kind = "relay"
             /\ lastEvent'.data.tipo = "webrtc:join"
             /\ lastEvent'.data.roomId = r
             /\ rooms'[r] = {lastEvent'.socket}
        /\ \A r \in DOMAIN rooms \ DOMAIN rooms' :
             /\ Terminates(lastEvent', lastEvent'.socket)
             /\ rooms[r] = {lastEvent'.socket}
        /\ \A s \in Sockets :
             (/\ Terminates(lastEvent', s)
              /\ MapHas(peers, s)
              /\ getRoomPeers(peers[s].roomId) = {s})
             => ~MapHas(rooms', peers[s].roomId)]_vars

C33_Witness ==
  /\ lastEvent.kind = "disconnect"
  /\ \E k \in PluginEmits : lastEvent.out[k].msg.tipo = "webrtc:peer-left"
  /\ joinCount >= 2
  /\ rooms = EmptyMap

\* C34: a webrtc:leave or a disconnect of a connection that holds no peer
\* session leaves rooms, peers and peerIdToSocketId unchanged, and the
\* plugin emits nothing.
C34_LeaveWithoutSessionNoOp ==
  [][\A s \in Sockets :
       (Terminates(lastEvent', s) /\ ~MapHas(peers, s))
       => /\ rooms' = rooms
          /\ peers' = peers
          /\ peerIdToSocketId' = peerIdToSocketId
          /\ \A k \in DOMAIN lastEvent'.out : lastEvent'.out[k].src # "WebRTCPlugin"]_vars

C34_Witness ==
  /\ lastEvent.socket \in Sockets
  /\ Terminates(lastEvent, lastEvent.socket)
  /\ PluginEmits = {}
  /\ \E r \in DOMAIN rooms : lastEvent.socket \in rooms[r]
  /\ \E p \in DOMAIN peerIdToSocketId : peerIdToSocketId[p] = lastEvent.socket

\* C35: on an instance whose MongoDB plugin failed to initialize during
\* start(), start() has completed, the plugin is neither enabled nor
\* registered, and a 'relay' envelope is routed by its handler at once, with
\* no persistence call pending.
C35_MongoFailureDegrades ==
  (instance.mongo = "failed")
  => /\ instance.started
     /\ ~isEnabled(instance)
     /\ instance.mongoPlugin = "null"
     /\ ~mongoEnabled
     /\ pending = <<>>
     /\ (lastEvent.kind = "relay")
          => \E k \in RelayEmits(lastEvent.out) :
               /\ lastEvent.out[k].msg = lastEvent.data
               /\ lastEvent.out[k].to = RouteTargets(lastEvent.socket, lastEvent.data)

C35_Witness ==
  /\ instance.mongoUrl
  /\ instance.mongo = "failed"
  /\ instance.started
  /\ lastEvent.kind = "relay"
  /\ \E k \in RelayEmits(lastEvent.out) : lastEvent.socket \in lastEvent.out[k].to

\* C36: on a started instance whose Redis connection was not established,
\* getStats() reports redis false and the socket server has no Redis
\* adapter.
C36_Original ==
  (instance.started /\ instance.redis # "connected")
  => /\ ~getStats(instance).redis
     /\ instance.adapter # "redis"

\* C37: after WebRTCPlugin.shutdown() no handler has thrown and the rooms,
\* peers and peerIdToSocketId tables are empty, whatever signaling envelopes
\* and disconnects the connected sockets send.
C37_Original ==
  (instance.handlers /\ ~instance.pluginNamespace)
  => /\ ~instance.uncaught
     /\ rooms = EmptyMap
     /\ peers = EmptyMap
     /\ peerIdToSocketId = EmptyMap

\* C38: no step of the manager replaces an entry of its peers map whose
\* RTCPeerConnection is open by another connection, and at no time are two
\* open RTCPeerConnections held for one remote id.
C38_Original ==
  /\ [](\A i, j \in 1..Len(manager.created) :
          (/\ i # j
           /\ manager.created[i].remote = manager.created[j].remote
           /\ ~manager.created[i].closed)
          => manager.created[j].closed)
  /\ [][\A remote \in RemoteIds :
          (/\ MapHas(manager.peers, remote)
           /\ MapHas(manager'.peers, remote)
           /\ ~manager'.created[manager.peers[remote]].closed)
          => manager'.peers[remote] = manager.peers[remote]]_vars

\* C39: whatever the standalone server emits that carries an envelope sent
\* with destination 'yo', on 'pasarela' or on 'events', goes to no connection
\* other than the sender of that envelope.
C39_Original ==
  (lastEvent.kind \in {"pasarela:resume", "kafka:events"} /\ lastEvent.data.destino = "yo")
  => \A k \in DOMAIN lastEvent.out : lastEvent.out[k].to \subseteq {lastEvent.socket}

====
